---- MODULE Spec2Model ----
(***************************************************************************)
(* State-machine model of the oxide-dco firmware (src/src/main.rs): four   *)
(* interrupt handlers (tick, hard_sync, measure, encoder_handler) sharing  *)
(* atomics under a fixed-priority preemptive dispatcher.                   *)
(*                                                                         *)
(* Each handler is a sequence of steps, one per access to state another    *)
(* handler or the hardware can see.  The hardware raises interrupt-pending *)
(* flags at any moment; the dispatcher starts the pending handler of the   *)
(* highest priority as soon as that priority exceeds the running one, and  *)
(* a handler's first step is taken on its exception entry.                 *)
(***************************************************************************)
EXTENDS Integers, Sequences, FiniteSets

\* ------------------------------------------------------------------ bounds
\* Largest Target Period the fixed-period specifications start from.
MaxPeriod == 4
\* Tick invocations whose outcome the tick log keeps (fixed-period runs).
MaxTicks == 14
\* ADC samples taken in a run of the whole system.
MaxSamples == 32
\* ADC samples taken in a run of the sampling task alone.
MaxFills == 64
\* ADC samples taken by the end of a run that starts one sample short of a
\* full buffer.
MaxLateSamples == 33
\* Interrupt events that arrive in a run with an event budget.
MaxEvents == 4
\* Encoder edges handled in a run of the encoder task alone.
MaxEdges == 4
\* Encoder edges handled in a run of the whole system.
MaxSysEdges == 1

\* --------------------------------------------------------------- constants
AVG_BUF_SIZE == 32
TIM3_FREQ_HZ == 200000
SEC_IN_US == 1000000
FINE_TUNE_STEP == 2

\* 6000.0 - 2.0 * voltage: the reference pitch in millivolts.
REF_MV == 6000
\* The ADC scale factor of measure: the f32 nearest to the literal
\* 1191.55555 is 9761223 * 2^-13 = 1191.5555419921875.
VOLT_SCALE_M == 9761223
VOLT_SCALE_E == -13
\* Bits of an f32 significand, the implicit leading one included.
F32_BITS == 24

U16 == 65536
I16_MIN == -32768
I16_MAX == 32767

Tasks == {"encoder_handler", "measure", "hard_sync", "tick"}

\* Mutant of Prio: the priorities of encoder_handler and measure are swapped.
PrioEncoderOverMeasure(h) ==
    CASE h = "encoder_handler" -> 2
      [] h = "measure" -> 1
      [] h = "hard_sync" -> 3
      [] h = "tick" -> 4

\* #[task(priority = ...)] of each handler.
Prio(h) ==
    CASE h = "encoder_handler" -> 1
      [] h = "measure" -> 2
      [] h = "hard_sync" -> 3
      [] h = "tick" -> 4

\* Mutant of GpioaCeiling: the ceiling is the priority of the locking task.
GpioaCeilingOwn == Prio("encoder_handler")

\* Ceiling of the gpioa resource: the highest priority among the tasks that
\* list it (encoder_handler and measure).
GpioaCeiling == Prio("measure")

\* GPIOA.ODR after init: BSRR sets bits 10 and 11 (pull-ups of the encoder pins).
OdrInit == 3072

\* ---------------------------------------------------------- pure functions
circle_time == SEC_IN_US \div TIM3_FREQ_HZ

us_to_period(us) == (us \div circle_time) \div 2

\* x < 2^32, for x >= 0 (TLC's own integers end at 2^31 - 1).
FitsU32(x) == x \div U16 < U16

\* x as a u32 after wrapping arithmetic, for 0 <= x < 2^33.
WrapU32(x) == IF FitsU32(x) THEN x ELSE x - U16 * U16

\* acc after the loop of avg over indices i..AVG_BUF_SIZE-1, u32 arithmetic.
\* (The wrapped sum a is bound as a value, so that it is computed once per
\* round of the loop.)
RECURSIVE AvgLoop(_, _, _)
AvgLoop(buf, i, acc) ==
    IF i >= AVG_BUF_SIZE THEN acc
    ELSE CHOOSE r \in {AvgLoop(buf, i + 1, a) :
                          a \in {WrapU32(acc + buf[i])}} : TRUE

\* Mutant of avg: the loop starts at index 1.
avg_from_one(buf) == AvgLoop(buf, 1, 0) \div AVG_BUF_SIZE

avg(buf) == AvgLoop(buf, 0, 0) \div AVG_BUF_SIZE

\* Mutant of fetch_add_i16: the addition saturates at the ends of the range.
fetch_add_i16_saturating(v, d) ==
    LET s == v + d
    IN  IF s > I16_MAX THEN I16_MAX
        ELSE IF s < I16_MIN THEN I16_MIN
        ELSE s

\* AtomicI16::fetch_add: two's-complement wrapping addition.
fetch_add_i16(v, d) ==
    LET s == v + d
    IN  IF s > I16_MAX THEN s - U16
        ELSE IF s < I16_MIN THEN s + U16
        ELSE s

\* Mutant of fetch_add_u32: the addition is lost.
fetch_add_u32_lost(v, d) == v

\* AtomicU32::fetch_add: wrapping addition.
fetch_add_u32(v, d) == WrapU32(v + d)

\* ------------------------------------------------------------ f32 arithmetic
\* An f32 value is a record [k, s, m, e].  Kind k = "num" stands for
\* (-1)^s * m * 2^e with m = 0 (and s = 0, e = 0) or 2^23 <= m < 2^24; kind
\* "inf" is the infinity of sign s and kind "nan" is a NaN.  Every operation
\* rounds to nearest, ties to even.  The exponent is unbounded: the values
\* measure forms from a u32 mean, a u16 reference reading and an i16 offset
\* stay inside f32's normal range.  (Each operation binds its operands as
\* values, so that an operand is computed once however often it is used.)

\* 2^n for 0 <= n <= 30.
Pow2(n) ==
    << 1, 2, 4, 8, 16, 32, 64, 128, 256, 512, 1024, 2048, 4096, 8192, 16384,
       32768, 65536, 131072, 262144, 524288, 1048576, 2097152, 4194304,
       8388608, 16777216, 33554432, 67108864, 134217728, 268435456,
       536870912, 1073741824 >>[n + 1]

\* The number of bits of the integer m0, 0 <= m0 < 2^31.
BitLen(m0) ==
    CHOOSE r \in {Cardinality({i \in 0..30 : Pow2(i) <= m}) : m \in {m0}} :
        TRUE

F32Zero == [k |-> "num", s |-> 0, m |-> 0, e |-> 0]
F32NaN == [k |-> "nan", s |-> 0, m |-> 0, e |-> 0]
F32Inf(s) == [k |-> "inf", s |-> s, m |-> 0, e |-> 0]
F32Num(s, m, e) == [k |-> "num", s |-> s, m |-> m, e |-> e]

\* m, e and the round-up decision after the low k > 0 bits of m leave the
\* significand; st tells of a non-zero fraction below m.
RoundBits(s, m, e, st, k) ==
    LET keep == m \div Pow2(k)
        rem == m % Pow2(k)
        half == Pow2(k - 1)
        up == \/ rem > half
              \/ rem = half /\ (st \/ keep % 2 = 1)
        r == IF up THEN keep + 1 ELSE keep
    IN  IF r = Pow2(F32_BITS)
        THEN F32Num(s, Pow2(F32_BITS - 1), e + k + 1)
        ELSE F32Num(s, r, e + k)

\* The f32 nearest to (-1)^s * (m0 + f) * 2^e, where 0 <= m0 < 2^31 and f is
\* a fraction in [0, 1) that is non-zero exactly if st; with st the caller
\* passes m0 >= 2^25.
RoundF32(s, m0, e, st) ==
    CHOOSE r \in
        { IF m = 0 THEN F32Zero
          ELSE CHOOSE q \in
              { IF k <= 0 THEN F32Num(s, m * Pow2(-k), e + k)
                ELSE RoundBits(s, m, e, st, k) :
                k \in {BitLen(m) - F32_BITS} } : TRUE :
          m \in {m0} } : TRUE

\* `n as f32` of an integer n.
F32FromInt(n) == RoundF32(IF n < 0 THEN 1 ELSE 0,
                          IF n < 0 THEN -n ELSE n, 0, FALSE)

\* -a
F32Neg(a0) ==
    CHOOSE r \in
        { IF a.k = "nan" \/ (a.k = "num" /\ a.m = 0) THEN a
          ELSE [a EXCEPT !.s = 1 - a.s] : a \in {a0} } : TRUE

\* The 48-bit product of the significands am and bm, formed from their
\* 12-bit halves, as [hi, lo] with product = hi * 2^24 + lo.
MulWide(am, bm) ==
    LET h == Pow2(12)
        w == Pow2(F32_BITS)
        mid == (am \div h) * (bm % h) + (am % h) * (bm \div h)
        lof == (am % h) * (bm % h) + (mid % h) * h
    IN  [hi |-> (am \div h) * (bm \div h) + mid \div h + lof \div w,
         lo |-> lof % w]

\* a * b: the top bits of the product of the significands are rounded, the
\* rest are the sticky fraction.
F32Mul(a0, b0) ==
    CHOOSE r \in
        { LET s == (a.s + b.s) % 2
          IN  IF a.k = "nan" \/ b.k = "nan" THEN F32NaN
              ELSE IF a.k = "inf" \/ b.k = "inf"
              THEN IF (a.k = "num" /\ a.m = 0) \/ (b.k = "num" /\ b.m = 0)
                   THEN F32NaN ELSE F32Inf(s)
              ELSE IF a.m = 0 \/ b.m = 0 THEN F32Zero
              ELSE CHOOSE q \in
                  { RoundF32(s, p.hi * 64 + p.lo \div Pow2(18),
                             a.e + b.e + 18, p.lo % Pow2(18) # 0) :
                    p \in {MulWide(a.m, b.m)} } : TRUE :
          a \in {a0}, b \in {b0} } : TRUE

\* 26 quotient bits of am / bm by long division, 7 bits at a time, as
\* [q, r] with r the remainder left over.
DivWide(am, bm) ==
    LET q0 == am \div bm
        r0 == am % bm
        q1 == (r0 * 128) \div bm
        r1 == (r0 * 128) % bm
        q2 == (r1 * 128) \div bm
        r2 == (r1 * 128) % bm
        q3 == (r2 * 128) \div bm
        r3 == (r2 * 128) % bm
        q4 == (r3 * 32) \div bm
        r4 == (r3 * 32) % bm
    IN  [q |-> (((q0 * 128 + q1) * 128 + q2) * 128 + q3) * 32 + q4,
         r |-> r4]

\* a / b: the quotient of the significands is rounded; a remainder left
\* over is the sticky fraction.
F32Div(a0, b0) ==
    CHOOSE r \in
        { LET s == (a.s + b.s) % 2
          IN  IF a.k = "nan" \/ b.k = "nan" THEN F32NaN
              ELSE IF a.k = "inf"
              THEN IF b.k = "inf" THEN F32NaN ELSE F32Inf(s)
              ELSE IF b.k = "inf" THEN F32Zero
              ELSE IF b.m = 0
              THEN IF a.m = 0 THEN F32NaN ELSE F32Inf(s)
              ELSE IF a.m = 0 THEN F32Zero
              ELSE CHOOSE q \in
                  { RoundF32(s, d.q, a.e - b.e - 26, d.r # 0) :
                    d \in {DivWide(a.m, b.m)} } : TRUE :
          a \in {a0}, b \in {b0} } : TRUE

\* x + y for finite non-zero x, y with |x| >= |y|: y is aligned to x under
\* three guard bits; the bits shifted out are the sticky fraction.
F32AddAligned(x, y) ==
    LET d == x.e - y.e
        ma == x.m * 8
        mb == IF d >= 27 THEN 0 ELSE (y.m * 8) \div Pow2(d)
        st == IF d >= 27 THEN TRUE ELSE (y.m * 8) % Pow2(d) # 0
    IN  IF x.s = y.s THEN RoundF32(x.s, ma + mb, x.e - 3, st)
        ELSE IF ma = mb /\ ~st THEN F32Zero
        ELSE RoundF32(x.s, ma - mb - (IF st THEN 1 ELSE 0), x.e - 3, st)

\* a + b
F32Add(a0, b0) ==
    CHOOSE r \in
        { IF a.k = "nan" \/ b.k = "nan" THEN F32NaN
          ELSE IF a.k = "inf"
          THEN IF b.k = "inf" /\ b.s # a.s THEN F32NaN ELSE a
          ELSE IF b.k = "inf" THEN b
          ELSE IF a.m = 0 THEN b
          ELSE IF b.m = 0 THEN a
          ELSE IF a.e > b.e \/ (a.e = b.e /\ a.m >= b.m)
          THEN F32AddAligned(a, b)
          ELSE F32AddAligned(b, a) :
          a \in {a0}, b \in {b0} } : TRUE

\* a - b
F32Sub(a, b) == F32Add(a, F32Neg(b))

\* The f32 literal 1191.55555, which is 9761223 * 2^-13.
VOLT_SCALE == F32Num(0, VOLT_SCALE_M, VOLT_SCALE_E)

\* avg as f32 * 1191.55555 / read_vref() as f32
Voltage(a, vref) ==
    F32Div(F32Mul(F32FromInt(a), VOLT_SCALE), F32FromInt(vref))

\* MvOct(6000.0 - 2.0 * voltage) + ft as f32
CompositePitch(v, ft) ==
    F32Add(F32Sub(F32FromInt(REF_MV), F32Mul(F32FromInt(2), v)),
           F32FromInt(ft))

\* (bits & (1 << 11)) == 0
CompanionLow(bits) == ((bits \div 2048) % 2) = 0

\* `x as u32` of a non-negative float with integer part x: saturating.
AsU32(x) == IF FitsU32(x) THEN x ELSE U16 * U16 - 1

\* Mutant of OdrWord: the word written is the low byte alone.
OdrWordLowOnly(r, hz) == AsU32(hz \div 16) % 256

\* (r & (0xff << 8)) | (hz / 16.0) as u32 & 0xff
OdrWord(r, hz) == (((r \div 256) % 256) * 256) + (AsU32(hz \div 16) % 256)

\* ------------------------------------------------------------------ inputs
\* Words GPIOA.IDR can show when it is read: bit 11 is the level of the
\* encoder's companion channel, the other bits are the port's other pins.
IdrValues == {0, 2048, 3327}

\* ADC input waveforms: what adc1.read returns on its n-th call (n from 0).
Waves == {"zero", "full", "flat", "ramp", "spike"}

Sample(w, n) ==
    CASE w = "zero" -> 0
      [] w = "full" -> U16 - 1
      [] w = "flat" -> 3723
      [] w = "ramp" -> (977 * n + 5) % U16
      [] w = "spike" -> IF n % AVG_BUF_SIZE = AVG_BUF_SIZE - 1
                        THEN (AVG_BUF_SIZE * (7 + n \div AVG_BUF_SIZE)) % U16
                        ELSE 0

\* What adc1.read_vref() returns while waveform w is at the input.
VrefReading(w) ==
    CASE w = "zero" -> 1489
      [] w = "full" -> 4095
      [] w = "flat" -> 1500
      [] w = "ramp" -> 1489
      [] w = "spike" -> 1

\* Results the external volts-per-octave converter can give for a composite
\* pitch: period in microseconds and integer part of the frequency in hertz.
ConvOutputs ==
    { [us |-> 9,  hz |-> 111111],
      [us |-> 10, hz |-> 100000],
      [us |-> 27, hz |-> 37037],
      [us |-> 31, hz |-> 32258] }

\* ------------------------------------------------------------------- state
VARIABLES
    counter,      \* Resources::counter (AtomicU32)
    period,       \* Resources::period (AtomicU32)
    fine_tune,    \* Resources::fine_tune (AtomicI16)
    out,          \* level of the output pin PB1: TRUE is high
    odr,          \* GPIOA.ODR
    avg_buf,      \* Resources::avg_buf
    AVG_COUNTER,  \* measure's static AVG_COUNTER
    adcWave,      \* the waveform at the ADC input
    adcN,         \* conversions the ADC has delivered
    converted,    \* the converter's results so far: [mv, out] per pitch
    evLeft,       \* interrupt events still to arrive; -1: no limit,
                  \* and the run keeps no books of the edges that arrive
    pend,         \* the interrupt-pending flag of each handler
    pc,           \* where each handler stands; "idle" when not active
    basepri,      \* priority ceiling raised by a resource lock, 0 when none
    tick_c,       \* tick: c
    tick_p,       \* tick: what period.load() returned; -1 when not loaded
    enc_bits,     \* encoder_handler: bits
    m_avg,        \* measure: avg
    m_conv,       \* measure: what the converter returned for mv
    m_r,          \* measure: r, the ODR word read by modify
    m_ft,         \* measure: what fine_tune.load() returned
    m_mv,         \* measure: mv, the composite pitch given to the converter
    m_odr0,       \* history: GPIOA.ODR when the running measure started
    m_ft0,        \* history: fine_tune when the running measure started
    m_stores,     \* history: period stores of the running measure
    \* history
    tick_out0,    \* out when the running tick loaded the counter
    tick_br,      \* branch the running tick took: "low", "toggle", "none"
    tick_sync,    \* the running tick is the first load after a hard_sync reset
    syncFresh,    \* hard_sync has reset the counter and no tick has loaded it since
    startFresh,   \* the counter holds its initial 0: no tick has run and no
                  \* hard_sync has reset it
    syncOwed,     \* a hard-sync edge has arrived and no reset has followed it
                  \* (kept in runs with an event budget)
    stored,       \* the values period has held: the initial one and the stores
    tickLog,      \* per finished tick branch, in order: did it toggle the output
    logCap,       \* how many tick outcomes tickLog keeps
    clears,       \* per active handler, how often it cleared each pending flag
    rdLog,        \* per encoder invocation, in order: was the companion low
    ftLog,        \* fine_tune at the start and after each encoder invocation
    encBase       \* edges handled before the run starts: [low, high]

progVars == <<counter, period, fine_tune, out, odr, avg_buf, AVG_COUNTER>>
envVars == <<adcWave, adcN, converted, evLeft>>
tickVars == <<tick_c, tick_p, tick_out0, tick_br, tick_sync>>
measVars == <<m_avg, m_conv, m_r, m_odr0, m_ft, m_mv, m_ft0, m_stores>>
encHist == <<rdLog, ftLog, encBase>>
tickHist == <<syncFresh, tickLog, logCap, startFresh, syncOwed, stored>>

vars == <<counter, period, fine_tune, out, odr, avg_buf, AVG_COUNTER,
          adcWave, adcN, converted, evLeft, pend, pc, basepri, tick_c, tick_p, enc_bits,
          m_avg, m_conv, m_r, m_odr0, m_ft, m_mv, m_ft0, m_stores,
          tick_out0, tick_br, tick_sync, syncFresh, startFresh, syncOwed, stored,
          tickLog, logCap, clears, rdLog, ftLog, encBase>>

NoClears == [f \in Tasks |-> 0]
NoConv == [us |-> 0, hz |-> 0]
NoPitch == F32Zero
NoLoad == -1
Unlimited == -1

\* The state after init() and n invocations of measure that nothing
\* preempted, with the period, the waveform, the fine-tune history, the
\* tick-log capacity and the event budget as given.
InitAt(p, w, base, cap, n, ev) ==
    /\ counter = 0
    /\ period = p
    /\ fine_tune = base.ft
    /\ out = FALSE
    /\ odr = OdrInit
    /\ avg_buf = [i \in 0..(AVG_BUF_SIZE - 1) |->
                      IF i < n THEN Sample(w, i) ELSE 0]
    /\ AVG_COUNTER = n
    /\ adcWave = w
    /\ adcN = n
    /\ converted = {}
    /\ evLeft = ev
    /\ pend = [h \in Tasks |-> FALSE]
    /\ pc = [h \in Tasks |-> "idle"]
    /\ basepri = 0
    /\ tick_c = 0
    /\ tick_p = NoLoad
    /\ enc_bits = 0
    /\ m_avg = 0
    /\ m_conv = NoConv
    /\ m_r = 0
    /\ m_odr0 = 0
    /\ m_ft = 0
    /\ m_mv = NoPitch
    /\ m_ft0 = 0
    /\ m_stores = 0
    /\ tick_out0 = FALSE
    /\ tick_br = "none"
    /\ tick_sync = FALSE
    /\ syncFresh = FALSE
    /\ startFresh = TRUE
    /\ syncOwed = FALSE
    /\ stored = {p}
    /\ tickLog = <<>>
    /\ logCap = cap
    /\ clears = [h \in Tasks |-> NoClears]
    /\ rdLog = <<>>
    /\ ftLog = <<base.ft>>
    /\ encBase = base

\* The state after init(): no sample taken, events arrive without limit.
InitWith(p, w, base, cap) == InitAt(p, w, base, cap, 0, Unlimited)

FreshEncoder == [ft |-> 0, low |-> 0, high |-> 0]

\* --------------------------------------------------------------- dispatcher
Active(h) == pc[h] # "idle"

\* Priority the processor runs at: the highest among the active handlers
\* and the ceiling a lock has raised.
CurPrio ==
    LET ps == {Prio(h) : h \in {g \in Tasks : Active(g)}} \cup {basepri}
    IN  CHOOSE p \in ps : \A q \in ps : q <= p

\* Mutant of Dispatchable: a pending handler is taken whatever its priority.
DispatchableAnyPriority(h) == pend[h] /\ ~Active(h)

Dispatchable(h) == pend[h] /\ ~Active(h) /\ Prio(h) > CurPrio

\* The handler the processor executes: the active one of highest priority.
Running(h) ==
    /\ Active(h)
    /\ \A g \in Tasks : Active(g) => Prio(g) <= Prio(h)
    /\ ~\E g \in Tasks : Dispatchable(g)

\* Exception entry of handler h: it is the pending handler of the highest
\* priority above the running one, and its first step executes.
Start(h) ==
    /\ Dispatchable(h)
    /\ \A g \in Tasks : Dispatchable(g) => Prio(g) <= Prio(h)

Goto(h, l) == pc' = [pc EXCEPT ![h] = l]

\* Handler h writes the pending flag of f away.
ClearFlag(h, f) ==
    /\ pend' = [pend EXCEPT ![f] = FALSE]
    /\ clears' = [clears EXCEPT ![h][f] = @ + 1]

\* ------------------------------------------------------------- environment
\* The run has an event budget and keeps books of the edges that arrive.
Counted == evLeft # Unlimited

\* What is left of an event budget n once one more event has arrived.
Spend(n) == IF n > 0 THEN n - 1 ELSE n

\* TIM3 update event (200 kHz), while the run's event budget lasts.
Tim3Update ==
    /\ evLeft # 0
    /\ evLeft' = Spend(evLeft)
    /\ pend' = [pend EXCEPT !["tick"] = TRUE]
    /\ UNCHANGED <<progVars, adcWave, adcN, converted, pc, basepri, tickVars,
                   enc_bits,
                   measVars, tickHist, clears, encHist>>

\* TIM2 update event (100 kHz), while the run's event budget lasts; at most
\* cap samples are taken in a run.
Tim2Update(cap) ==
    /\ AVG_COUNTER < cap
    /\ evLeft # 0
    /\ evLeft' = Spend(evLeft)
    /\ pend' = [pend EXCEPT !["measure"] = TRUE]
    /\ UNCHANGED <<progVars, adcWave, adcN, converted, pc, basepri, tickVars,
                   enc_bits,
                   measVars, tickHist, clears, encHist>>

\* Rising edge on the hard-sync input PB5 (EXTI line 5), while the run's
\* event budget lasts.
HardSyncEdge ==
    /\ evLeft # 0
    /\ evLeft' = Spend(evLeft)
    /\ pend' = [pend EXCEPT !["hard_sync"] = TRUE]
    /\ syncOwed' = Counted
    /\ UNCHANGED <<progVars, adcWave, adcN, converted, pc, basepri, tickVars,
                   enc_bits,
                   measVars, syncFresh, tickLog, logCap, startFresh, stored,
                   clears, encHist>>

\* Falling edge on the encoder channel PA10 (EXTI line 10), while the run's
\* event budget lasts; at most cap edges are handled in a run.
EncoderEdge(cap) ==
    /\ Len(rdLog) < cap
    /\ evLeft # 0
    /\ evLeft' = Spend(evLeft)
    /\ pend' = [pend EXCEPT !["encoder_handler"] = TRUE]
    /\ UNCHANGED <<progVars, adcWave, adcN, converted, pc, basepri, tickVars,
                   enc_bits,
                   measVars, tickHist, clears, encHist>>

\* -------------------------------------------------------------------- tick
\* let c = counter.load()
tick_load ==
    /\ Start("tick")
    /\ tick_c' = counter
    /\ tick_out0' = out
    /\ tick_sync' = syncFresh
    /\ syncFresh' = FALSE
    /\ tick_br' = "none"
    /\ Goto("tick", "branch")
    /\ UNCHANGED <<progVars, envVars, pend, basepri, tick_p, enc_bits,
                   measVars, tickLog, logCap, startFresh, syncOwed, stored,
                   clears, encHist>>

\* Mutant of TickBranch: the comparison with the period is strict.
TickBranchStrict(c, p) ==
    IF c = 0 THEN "low"
    ELSE IF c > p THEN "toggle"
    ELSE "none"

\* Mutant of TickBranch: the comparison with the period is an equality.
TickBranchEqual(c, p) ==
    IF c = 0 THEN "low"
    ELSE IF c = p THEN "toggle"
    ELSE "none"

\* Mutant of TickBranch: the test for a zero counter is missing.
TickBranchNoLow(c, p) ==
    IF c >= p THEN "toggle"
    ELSE "none"

\* Branch of tick for counter value c: "low", "toggle" or "none".
TickBranch(c, p) ==
    IF c = 0 THEN "low"
    ELSE IF c >= p THEN "toggle"
    ELSE "none"

\* Mutant of CounterAfterBranch: the toggle branch does not reset the counter.
CounterAfterBranchKept(br, cnt) == cnt

\* The counter after the branch br: counter.store(0) in the toggle branch.
CounterAfterBranch(br, cnt) == IF br = "toggle" THEN 0 ELSE cnt

\* if c == 0 { set_low } else if c >= period.load() { toggle; counter.store(0) }
tick_branch ==
    /\ Running("tick") /\ pc["tick"] = "branch"
    /\ tick_p' = IF tick_c = 0 THEN NoLoad ELSE period
    /\ tick_br' = TickBranch(tick_c, period)
    /\ out' = CASE tick_br' = "low" -> FALSE
                [] tick_br' = "toggle" -> ~out
                [] OTHER -> out
    /\ counter' = CounterAfterBranch(tick_br', counter)
    /\ tickLog' = IF Len(tickLog) < logCap
                  THEN Append(tickLog, out' # out)
                  ELSE tickLog
    /\ Goto("tick", "add")
    /\ UNCHANGED <<period, fine_tune, odr, avg_buf, AVG_COUNTER, envVars,
                   pend, basepri, tick_c, tick_out0, tick_sync, enc_bits,
                   measVars, syncFresh, logCap, startFresh, syncOwed, stored,
                   clears, encHist>>

\* counter.fetch_add(1)
tick_add ==
    /\ Running("tick") /\ pc["tick"] = "add"
    /\ counter' = fetch_add_u32(counter, 1)
    /\ Goto("tick", "clear")
    /\ UNCHANGED <<period, fine_tune, out, odr, avg_buf, AVG_COUNTER,
                   envVars, pend, basepri, tickVars, enc_bits, measVars,
                   tickHist, clears, encHist>>

\* Mutant of tick_clear: the update flag of TIM3 is left set.
tick_clear_missing ==
    /\ Running("tick") /\ pc["tick"] = "clear"
    /\ Goto("tick", "ret")
    /\ UNCHANGED <<progVars, envVars, pend, basepri, tickVars, enc_bits,
                   measVars, tickHist, clears, encHist>>

\* tim3.clear_update_interrupt_flag()
tick_clear ==
    /\ Running("tick") /\ pc["tick"] = "clear"
    /\ ClearFlag("tick", "tick")
    /\ Goto("tick", "ret")
    /\ UNCHANGED <<progVars, envVars, basepri, tickVars, enc_bits,
                   measVars, tickHist, encHist>>

\* Exception return of tick.
tick_ret ==
    /\ Running("tick") /\ pc["tick"] = "ret"
    /\ Goto("tick", "idle")
    /\ clears' = [clears EXCEPT !["tick"] = NoClears]
    /\ tick_c' = 0
    /\ tick_p' = NoLoad
    /\ tick_out0' = FALSE
    /\ tick_br' = "none"
    /\ tick_sync' = FALSE
    /\ startFresh' = FALSE
    /\ UNCHANGED <<progVars, envVars, pend, basepri, enc_bits, measVars,
                   syncFresh, tickLog, logCap, syncOwed, stored, encHist>>

\* --------------------------------------------------------------- hard_sync
\* Mutant of hard_sync_store: the reset also drives the output low.
hard_sync_store_low ==
    /\ Start("hard_sync")
    /\ counter' = 0
    /\ out' = FALSE
    /\ syncFresh' = TRUE
    /\ startFresh' = FALSE
    /\ syncOwed' = FALSE
    /\ Goto("hard_sync", "clear")
    /\ UNCHANGED <<period, fine_tune, odr, avg_buf, AVG_COUNTER,
                   envVars, pend, basepri, tickVars, enc_bits, measVars,
                   tickLog, logCap, stored, clears, encHist>>

\* counter.store(0)
hard_sync_store ==
    /\ Start("hard_sync")
    /\ counter' = 0
    /\ syncFresh' = TRUE
    /\ startFresh' = FALSE
    /\ syncOwed' = FALSE
    /\ Goto("hard_sync", "clear")
    /\ UNCHANGED <<period, fine_tune, out, odr, avg_buf, AVG_COUNTER,
                   envVars, pend, basepri, tickVars, enc_bits, measVars,
                   tickLog, logCap, stored, clears, encHist>>

\* hard_sync.clear_interrupt_pending_bit()
hard_sync_clear ==
    /\ Running("hard_sync") /\ pc["hard_sync"] = "clear"
    /\ ClearFlag("hard_sync", "hard_sync")
    /\ Goto("hard_sync", "ret")
    /\ UNCHANGED <<progVars, envVars, basepri, tickVars, enc_bits,
                   measVars, tickHist, encHist>>

\* Exception return of hard_sync.
hard_sync_ret ==
    /\ Running("hard_sync") /\ pc["hard_sync"] = "ret"
    /\ Goto("hard_sync", "idle")
    /\ clears' = [clears EXCEPT !["hard_sync"] = NoClears]
    /\ syncOwed' = (Counted /\ pend["hard_sync"])
    /\ UNCHANGED <<progVars, envVars, pend, basepri, tickVars, enc_bits,
                   measVars, syncFresh, tickLog, logCap, startFresh, stored,
                   encHist>>

\* --------------------------------------------------------- encoder_handler
\* gpioa.lock(..): raise the priority to the ceiling of gpioa.
encoder_lock ==
    /\ Start("encoder_handler")
    /\ basepri' = GpioaCeiling
    /\ Goto("encoder_handler", "read")
    /\ UNCHANGED <<progVars, envVars, pend, tickVars, enc_bits, measVars,
                   tickHist, clears, encHist>>

\* gpioa.idr.read().bits(), inside the lock: the levels the pins show now
encoder_read ==
    /\ Running("encoder_handler") /\ pc["encoder_handler"] = "read"
    /\ \E v \in IdrValues : enc_bits' = v
    /\ Goto("encoder_handler", "unlock")
    /\ UNCHANGED <<progVars, envVars, pend, basepri, tickVars, measVars,
                   tickHist, clears, encHist>>

\* End of the lock closure: the priority is restored.
encoder_unlock ==
    /\ Running("encoder_handler") /\ pc["encoder_handler"] = "unlock"
    /\ basepri' = 0
    /\ Goto("encoder_handler", "add")
    /\ UNCHANGED <<progVars, envVars, pend, tickVars, enc_bits, measVars,
                   tickHist, clears, encHist>>

\* The operand of fetch_add for the bits read: match state { true => .., false => .. }
EncoderDelta(b) ==
    IF CompanionLow(b) THEN FINE_TUNE_STEP ELSE -FINE_TUNE_STEP

\* fine_tune.fetch_add(+-FINE_TUNE_STEP)
encoder_add ==
    /\ Running("encoder_handler") /\ pc["encoder_handler"] = "add"
    /\ fine_tune' = fetch_add_i16(fine_tune, EncoderDelta(enc_bits))
    /\ rdLog' = Append(rdLog, CompanionLow(enc_bits))
    /\ ftLog' = Append(ftLog, fine_tune')
    /\ Goto("encoder_handler", "clear")
    /\ UNCHANGED <<counter, period, out, odr, avg_buf, AVG_COUNTER, envVars,
                   pend, basepri, tickVars, enc_bits, measVars, tickHist,
                   clears, encBase>>

\* exti.pr.write(1 << 10)
encoder_clear ==
    /\ Running("encoder_handler") /\ pc["encoder_handler"] = "clear"
    /\ ClearFlag("encoder_handler", "encoder_handler")
    /\ Goto("encoder_handler", "ret")
    /\ UNCHANGED <<progVars, envVars, basepri, tickVars, enc_bits,
                   measVars, tickHist, encHist>>

\* Exception return of encoder_handler.
encoder_ret ==
    /\ Running("encoder_handler") /\ pc["encoder_handler"] = "ret"
    /\ Goto("encoder_handler", "idle")
    /\ clears' = [clears EXCEPT !["encoder_handler"] = NoClears]
    /\ enc_bits' = 0
    /\ UNCHANGED <<progVars, envVars, pend, basepri, tickVars, measVars,
                   tickHist, encHist>>

\* ----------------------------------------------------------------- measure
\* Slot of avg_buf the n-th sample goes to.
SampleSlot(n) == n % AVG_BUF_SIZE

\* Mutant of Publishes: the test looks at the sample index before the
\* increment.
PublishesBeforeIncrement(n) == (n - 1) % AVG_BUF_SIZE = 0

\* Whether the invocation that left AVG_COUNTER at n computes a mean.
Publishes(n) == n % AVG_BUF_SIZE = 0

\* Mutant of MeasureAfterSample: the flag clear sits inside the if-block.
MeasureAfterSampleNoClear(n) == IF Publishes(n) THEN "avg" ELSE "ret"

\* Where measure goes on once AVG_COUNTER is n: into the if-block or past it
\* to the flag clear.
MeasureAfterSample(n) == IF Publishes(n) THEN "avg" ELSE "clear"

\* avg_buf[AVG_COUNTER % AVG_BUF_SIZE] = adc1.read(ch0); AVG_COUNTER += 1;
\* if AVG_COUNTER % AVG_BUF_SIZE == 0 { .. }
measure_sample ==
    /\ Start("measure")
    /\ avg_buf' = [avg_buf EXCEPT ![SampleSlot(AVG_COUNTER)] = Sample(adcWave, adcN)]
    /\ adcN' = adcN + 1
    /\ AVG_COUNTER' = WrapU32(AVG_COUNTER + 1)
    /\ m_odr0' = odr
    /\ m_ft0' = fine_tune
    /\ Goto("measure", MeasureAfterSample(AVG_COUNTER'))
    /\ UNCHANGED <<counter, period, fine_tune, out, odr, adcWave, converted,
                   evLeft, pend, basepri, tickVars, enc_bits, m_avg, m_conv, m_r,
                   m_ft, m_mv, m_stores, tickHist,
                   clears, encHist>>

\* let avg = avg(avg_buf)
measure_avg ==
    /\ Running("measure") /\ pc["measure"] = "avg"
    /\ m_avg' = avg(avg_buf)
    /\ Goto("measure", "conv")
    /\ UNCHANGED <<progVars, envVars, pend, basepri, tickVars, enc_bits,
                   m_conv, m_r, m_odr0, m_ft, m_mv, m_ft0, m_stores,
                   tickHist, clears, encHist>>

\* What mv.us() and mv.hz() can return for the pitch mv: they are functions
\* of mv, so a pitch converted before gives what it gave then; a new pitch
\* gives any of the converter's results.
ConvResults(mv) ==
    LET known == {c \in converted : c.mv = mv}
    IN  IF known = {} THEN ConvOutputs ELSE {c.out : c \in known}

\* let voltage = ..; let mv = MvOct(6000.0 - 2.0 * voltage) +
\* fine_tune.load() as f32; mv.us(), mv.hz()
measure_conv ==
    /\ Running("measure") /\ pc["measure"] = "conv"
    /\ m_ft' = fine_tune
    /\ m_mv' = CompositePitch(Voltage(m_avg, VrefReading(adcWave)), m_ft')
    /\ \E cv \in ConvResults(m_mv') :
          /\ m_conv' = cv
          /\ converted' = converted \cup {[mv |-> m_mv', out |-> cv]}
    /\ Goto("measure", "store")
    /\ UNCHANGED <<progVars, adcWave, adcN, evLeft, pend, basepri, tickVars,
                   enc_bits, m_avg, m_r, m_odr0, m_ft0, m_stores, tickHist,
                   clears, encHist>>

\* period.store(us_to_period(mv.us()))
measure_store ==
    /\ Running("measure") /\ pc["measure"] = "store"
    /\ period' = us_to_period(m_conv.us)
    /\ m_stores' = m_stores + 1
    /\ stored' = stored \cup {period'}
    /\ Goto("measure", "odr_r")
    /\ UNCHANGED <<counter, fine_tune, out, odr, avg_buf, AVG_COUNTER,
                   envVars, pend, basepri, tickVars, enc_bits, m_avg, m_conv,
                   m_r, m_odr0, m_ft, m_mv, m_ft0, syncFresh, tickLog,
                   logCap, startFresh, syncOwed, clears, encHist>>

\* gpioa.odr.modify: the read of r
measure_odr_read ==
    /\ Running("measure") /\ pc["measure"] = "odr_r"
    /\ m_r' = odr
    /\ Goto("measure", "odr_w")
    /\ UNCHANGED <<progVars, envVars, pend, basepri, tickVars, enc_bits,
                   m_avg, m_conv, m_odr0, m_ft, m_mv, m_ft0, m_stores,
                   tickHist, clears, encHist>>

\* gpioa.odr.modify: the write of w.bits(..)
measure_odr_write ==
    /\ Running("measure") /\ pc["measure"] = "odr_w"
    /\ odr' = OdrWord(m_r, m_conv.hz)
    /\ Goto("measure", "clear")
    /\ UNCHANGED <<counter, period, fine_tune, out, avg_buf, AVG_COUNTER,
                   envVars, pend, basepri, tickVars, enc_bits, measVars,
                   tickHist, clears, encHist>>

\* tim2.clear_update_interrupt_flag()
measure_clear ==
    /\ Running("measure") /\ pc["measure"] = "clear"
    /\ ClearFlag("measure", "measure")
    /\ Goto("measure", "ret")
    /\ UNCHANGED <<progVars, envVars, basepri, tickVars, enc_bits,
                   measVars, tickHist, encHist>>

\* Exception return of measure.
measure_ret ==
    /\ Running("measure") /\ pc["measure"] = "ret"
    /\ Goto("measure", "idle")
    /\ clears' = [clears EXCEPT !["measure"] = NoClears]
    /\ m_avg' = 0
    /\ m_conv' = NoConv
    /\ m_r' = 0
    /\ m_odr0' = 0
    /\ m_ft' = 0
    /\ m_mv' = NoPitch
    /\ m_ft0' = 0
    /\ m_stores' = 0
    /\ UNCHANGED <<progVars, envVars, pend, basepri, tickVars, enc_bits,
                   tickHist, encHist>>

\* ---------------------------------------------------------- specifications
tick == tick_load \/ tick_branch \/ tick_add \/ tick_clear \/ tick_ret

hard_sync == hard_sync_store \/ hard_sync_clear \/ hard_sync_ret

encoder_handler ==
    \/ encoder_lock \/ encoder_read \/ encoder_unlock
    \/ encoder_add \/ encoder_clear \/ encoder_ret

measure ==
    \/ measure_sample \/ measure_avg \/ measure_conv \/ measure_store
    \/ measure_odr_read \/ measure_odr_write \/ measure_clear \/ measure_ret

\* The whole system after init().
Init == InitWith(0, "ramp", FreshEncoder, 0)

Next ==
    \/ Tim3Update
    \/ Tim2Update(MaxSamples)
    \/ HardSyncEdge
    \/ EncoderEdge(MaxSysEdges)
    \/ tick
    \/ hard_sync
    \/ encoder_handler
    \/ measure

Spec == Init /\ [][Next]_vars

\* The tick generator alone, Target Period fixed at some P > 0.
InitTick == \E p \in 1..MaxPeriod : InitWith(p, "zero", FreshEncoder, MaxTicks)

NextTick == Tim3Update \/ tick

SpecTick == InitTick /\ [][NextTick]_vars

\* The tick generator and hard sync, Target Period fixed at some P > 0.
InitFixed == \E p \in 1..MaxPeriod : InitWith(p, "zero", FreshEncoder, 0)

NextFixed ==
    \/ Tim3Update
    \/ HardSyncEdge
    \/ tick
    \/ hard_sync

SpecFixed == InitFixed /\ [][NextFixed]_vars

\* The sampling task under the tick generator, for each ADC waveform.
InitMeasure == \E w \in Waves : InitWith(0, w, FreshEncoder, 0)

NextMeasure ==
    \/ Tim3Update
    \/ Tim2Update(MaxFills)
    \/ tick
    \/ measure

SpecMeasure == InitMeasure /\ [][NextMeasure]_vars

\* Fine-tune histories a run of the encoder task starts from: none, and
\* those that leave fine_tune next to the ends of the i16 range.
EncoderStarts ==
    { FreshEncoder,
      [ft |-> 32766, low |-> 16383, high |-> 0],
      [ft |-> -32768, low |-> 0, high |-> 16384] }

\* The encoder task alone.
InitEncoder == \E b \in EncoderStarts : InitWith(0, "zero", b, 0)

NextEncoder ==
    \/ EncoderEdge(MaxEdges)
    \/ encoder_handler

SpecEncoder == InitEncoder /\ [][NextEncoder]_vars

\* Samples measure has taken when the buffer lacks one sample.
LateStart == AVG_BUF_SIZE - 1

\* The whole system from the state where measure has run LateStart times
\* and nothing else has happened.
InitLate == InitAt(0, "ramp", FreshEncoder, 0, LateStart, Unlimited)

NextLate ==
    \/ Tim3Update
    \/ Tim2Update(MaxLateSamples)
    \/ HardSyncEdge
    \/ EncoderEdge(MaxSysEdges)
    \/ tick
    \/ hard_sync
    \/ encoder_handler
    \/ measure

SpecLate == InitLate /\ [][NextLate]_vars

\* The tick generator and hard sync while measure fills the buffer and
\* replaces a Target Period P > 0.
InitRetune ==
    \E p \in 1..MaxPeriod :
        InitAt(p, "zero", FreshEncoder, 0, LateStart, Unlimited)

NextRetune ==
    \/ Tim3Update
    \/ Tim2Update(MaxLateSamples)
    \/ HardSyncEdge
    \/ tick
    \/ hard_sync
    \/ measure

SpecRetune == InitRetune /\ [][NextRetune]_vars

\* The tick generator and hard sync under a budget of events.
InitSync == InitAt(0, "zero", FreshEncoder, 0, 0, MaxEvents)

NextSync ==
    \/ Tim3Update
    \/ HardSyncEdge
    \/ tick
    \/ hard_sync

SpecSync == InitSync /\ [][NextSync]_vars

\* A step of the processor: the entry or the next step of a handler.
Execute == tick \/ hard_sync \/ encoder_handler \/ measure

\* The whole system, one sample short of a full buffer, under a budget of
\* events: the events do not arrive without end, and the processor takes a
\* step whenever a handler can start or go on.
InitLive == InitAt(0, "ramp", FreshEncoder, 0, LateStart, MaxEvents)

NextLive ==
    \/ Tim3Update
    \/ Tim2Update(MaxLateSamples)
    \/ HardSyncEdge
    \/ EncoderEdge(MaxSysEdges)
    \/ tick
    \/ hard_sync
    \/ encoder_handler
    \/ measure

SpecLive ==
    /\ InitLive /\ [][NextLive]_vars
    /\ WF_vars(Execute)

\* ------------------------------------------------------------------ claims
\* Number of output toggles among the n tick invocations i, i+1, .., i+n-1.
TogglesIn(i, n) == Cardinality({k \in i..(i + n - 1) : tickLog[k]})

\* Windows of period consecutive tick invocations the log holds, from the
\* window that starts at invocation `first` on.
Windows(first) == first..(Len(tickLog) - period + 1)

\* C1 as stated: with Target Period fixed at P > 0 and no hard sync, every
\* window of P consecutive tick invocations, counted from the first
\* invocation after start-up, holds exactly one toggle of the output.
C1_EveryWindowTogglesOnce ==
    \A i \in Windows(1) : TogglesIn(i, period) = 1

\* C1 amended: the first tick invocation reads counter 0, forces the output
\* low and does not toggle; every window of P consecutive tick invocations
\* that starts after the first invocation holds exactly one toggle.
C1_WindowsAfterFirstToggleOnce ==
    /\ Len(tickLog) >= 1 => ~tickLog[1]
    /\ \A i \in Windows(2) : TogglesIn(i, period) = 1

\* C1 witness: period 3, seven ticks logged, toggles at ticks 4 and 7.
C1_Witness ==
    /\ period = 3
    /\ Len(tickLog) >= 7
    /\ tickLog[4] /\ tickLog[7]
    /\ ~tickLog[5] /\ ~tickLog[6]

\* C2: with Target Period fixed at P > 0, under every interleaving of tick
\* and hard_sync, the Phase Counter is at most P.
C2_CounterAtMostPeriod == counter <= period

\* C2 witness: the counter has climbed to P = 3 by ticks that preempted a
\* hard_sync between its reset and its flag clear.
C2_Witness ==
    /\ period = 3
    /\ counter = period
    /\ pc["hard_sync"] = "clear"

\* The running tick has executed its branch.
TickBranched == pc["tick"] \in {"add", "clear", "ret"}

\* C3 as stated: when Target Period is 0, every tick invocation leaves the
\* output at the opposite of the level it found.
C3_ZeroPeriodAlwaysToggles ==
    (TickBranched /\ period = 0) => out # tick_out0

\* C3 amended: when Target Period is 0, every tick invocation that reads a
\* non-zero Phase Counter leaves the output at the opposite of the level it
\* found; a tick that reads Phase Counter 0 forces the output low instead.
C3_ZeroPeriodTogglesUnlessCounterZero ==
    (TickBranched /\ period = 0) =>
        IF tick_c # 0 THEN out # tick_out0 ELSE ~out

\* C3 witness: a tick with period 0 that found the output high and the
\* counter non-zero, and has toggled the output low.
C3_Witness ==
    /\ pc["tick"] = "add"
    /\ period = 0
    /\ tick_c # 0
    /\ tick_out0 /\ ~out

\* C4: the first tick after a hard_sync reset reads Phase Counter 0, takes
\* the force-low branch (not the toggle branch), leaves the output low and
\* leaves Phase Counter at 1, whatever the state before the reset.
C4_TickAfterHardSync ==
    tick_sync =>
        /\ tick_c = 0
        /\ TickBranched => (tick_br = "low" /\ ~out)
        /\ pc["tick"] \in {"clear", "ret"} => counter = 1

\* C4 witness: a tick right after a hard sync that found the output high
\* under a period above 1, and has finished its increment.
C4_Witness ==
    /\ tick_sync
    /\ pc["tick"] = "clear"
    /\ tick_out0
    /\ period > 1

\* Sum of the ADC samples number i..(j - 1), in unbounded arithmetic.
RECURSIVE SampleSum(_, _)
SampleSum(i, j) ==
    IF i >= j THEN 0 ELSE Sample(adcWave, i) + SampleSum(i + 1, j)

\* The running measure has computed its mean.
MeanComputed == pc["measure"] \in {"conv", "store", "odr_r", "odr_w"}

\* C5: whenever measure has computed a mean, avg_buf holds the 32 most
\* recently read ADC samples, each once (sample number n in slot n mod 32),
\* the mean is the floor of their sum divided by 32, and the sum fits u32.
C5_MeanOfLast32 ==
    MeanComputed =>
        /\ Publishes(AVG_COUNTER)
        /\ adcN >= AVG_BUF_SIZE
        /\ \A n \in (adcN - AVG_BUF_SIZE)..(adcN - 1) :
               avg_buf[n % AVG_BUF_SIZE] = Sample(adcWave, n)
        /\ FitsU32(SampleSum(adcN - AVG_BUF_SIZE, adcN))
        /\ m_avg = SampleSum(adcN - AVG_BUF_SIZE, adcN) \div AVG_BUF_SIZE

\* C5 witness: the mean of the second buffer fill of the ramp waveform.
C5_Witness ==
    /\ MeanComputed
    /\ adcWave = "ramp"
    /\ AVG_COUNTER = 2 * AVG_BUF_SIZE
    /\ m_avg > 0

\* Invocation i of encoder_handler read the companion channel low.
ReadLow(i) == rdLog[i]

\* C6 as stated: every encoder_handler invocation changes fine_tune by
\* exactly +FINE_TUNE_STEP when it read the companion low and by exactly
\* -FINE_TUNE_STEP when it read it high.
C6_EveryEdgeStepsByTwo ==
    \A i \in 1..Len(rdLog) :
        ftLog[i + 1] - ftLog[i] =
            IF ReadLow(i) THEN FINE_TUNE_STEP ELSE -FINE_TUNE_STEP

\* Invocations i..j of encoder_handler read alternating companion levels.
Alternates(i, j) == \A k \in i..(j - 1) : ReadLow(k) # ReadLow(k + 1)

\* C7: after an even number of consecutive encoder_handler invocations
\* whose companion readings alternate (low, high, .. or high, low, ..),
\* fine_tune is back at the value it had before them, for every start value.
C7_AlternatingEdgesReturn ==
    \A i \in 1..Len(rdLog) : \A j \in i..Len(rdLog) :
        ((j - i + 1) % 2 = 0 /\ Alternates(i, j)) => ftLog[j + 1] = ftLog[i]

\* C7 witness: four alternating edges, low first, from 32766: the offset
\* passes through the end of the i16 range and is back at 32766.
C7_Witness ==
    /\ Len(rdLog) = 4
    /\ Alternates(1, 4)
    /\ ReadLow(1)
    /\ ftLog[1] = 32766
    /\ ftLog[2] # 32766
    /\ fine_tune = 32766

\* Companion-low and companion-high edges handled since start-up.
LowEdges == encBase.low + Cardinality({i \in 1..Len(rdLog) : ReadLow(i)})
HighEdges == encBase.high + Cardinality({i \in 1..Len(rdLog) : ~ReadLow(i)})

\* C8 as stated: after n companion-low and m companion-high edges from
\* offset 0, fine_tune is 2 * (n - m), without clamp or wrap-around.
C8_OffsetIsTwiceNetEdges ==
    fine_tune = FINE_TUNE_STEP * (LowEdges - HighEdges)

\* What a handler's clear count is when it has cleared its own flag once.
OwnFlagOnce(h) == [f \in Tasks |-> IF f = h THEN 1 ELSE 0]

\* C9: each handler invocation that is about to return has cleared its own
\* pending flag exactly once, and no handler ever clears another's flag or
\* its own a second time.
C9_OwnFlagClearedOnce ==
    \A h \in Tasks :
        /\ pc[h] = "ret" => clears[h] = OwnFlagOnce(h)
        /\ \A f \in Tasks : clears[h][f] <= OwnFlagOnce(h)[f]

\* C9 witness: a measure invocation that computed no mean is about to
\* return with its flag cleared once.
C9_Witness ==
    /\ pc["measure"] = "ret"
    /\ ~Publishes(AVG_COUNTER)
    /\ clears["measure"] = OwnFlagOnce("measure")
    /\ ~pend["measure"]

\* The running measure has published and written the coarse pitch port.
PortWritten == pc["measure"] \in {"clear", "ret"} /\ Publishes(AVG_COUNTER)

\* C10: after the port write of a publishing measure, bits [7:0] of GPIOA.ODR
\* are floor(hz / 16) mod 256 and bits [15:8] are what they were when the
\* invocation started, under every interleaving with the other handlers;
\* between the read and the write of the port the port still holds the word
\* read and encoder_handler is not inside its port access.
C10_CoarsePitchLowByteOnly ==
    /\ PortWritten =>
        /\ odr % 256 = (m_conv.hz \div 16) % 256
        /\ odr \div 256 = m_odr0 \div 256
    /\ pc["measure"] = "odr_w" =>
        /\ odr = m_r
        /\ pc["encoder_handler"] \notin {"read", "unlock"}

\* C10 witness: a publishing measure has written a non-zero coarse pitch
\* byte under the set high-byte bits 10 and 11.
C10_Witness ==
    /\ PortWritten
    /\ odr % 256 # 0
    /\ odr \div 256 = 12

\* The running measure has formed its composite pitch.
PitchFormed ==
    pc["measure"] \in {"store", "odr_r", "odr_w"} \/ PortWritten

\* C11: from the start to the end of a measure invocation the Fine-Tune
\* Offset is what it was at the start (encoder_handler cannot preempt
\* measure); on a publishing invocation the offset measure loaded is that
\* value, and the composite pitch is, in f32 arithmetic, 6000 minus twice
\* the measured voltage (mean * 1191.55555 / vref) plus the offset the
\* invocation started with.
C11_CompositePitchSingleLoad ==
    /\ Active("measure") => fine_tune = m_ft0
    /\ PitchFormed =>
        /\ m_ft = m_ft0
        /\ m_mv = F32Add(F32Sub(F32FromInt(6000),
                                F32Mul(F32FromInt(2),
                                       Voltage(m_avg, VrefReading(adcWave)))),
                         F32FromInt(m_ft0))

\* C11 witness: a publishing measure has formed its pitch while an encoder
\* edge is waiting that cannot preempt it.
C11_Witness ==
    /\ pc["measure"] = "store"
    /\ pend["encoder_handler"]
    /\ ~Active("encoder_handler")
    /\ m_avg > 0
    /\ m_mv.k = "num"
    /\ m_mv.m > 0

\* The largest value Target Period has held.
LargestPeriod == CHOOSE p \in stored : \A q \in stored : q <= p

\* C12 as stated: in every reachable state, under any interleaving of tick,
\* hard_sync and measure, the Phase Counter is in [0, Target Period].
C12_CounterWithinPeriod == 0 <= counter /\ counter <= period

\* C12 amended: in every reachable state the Phase Counter is at least 0 and
\* at most the largest value Target Period has held so far, or 1 if that is
\* larger.
C12_CounterWithinLargestPeriod ==
    /\ 0 <= counter
    /\ counter <= IF LargestPeriod > 1 THEN LargestPeriod ELSE 1

\* C12 witness: measure has published a Target Period of at least 1 that is
\* smaller than the Phase Counter.
C12_Witness ==
    /\ pc["measure"] = "odr_r"
    /\ period >= 1
    /\ counter > period
    /\ counter = LargestPeriod

\* Handler h takes a step.
Steps(h) == pc'[h] # pc[h]

\* C13: the priorities are encoder_handler 1 < measure 2 < hard_sync 3 <
\* tick 4; a handler starts only while every active handler has a strictly
\* lower priority, and only from idle (never on top of itself); the handler
\* that takes a step outranks every other active handler; while tick is
\* active no other handler steps and nothing else changes the Phase
\* Counter, so the counter tick works on is the one it loaded and
\* hard_sync's reset falls outside tick's load .. increment.
C13_PreemptedByHigherOnly ==
    [][ /\ Prio("encoder_handler") = 1 /\ Prio("measure") = 2
        /\ Prio("hard_sync") = 3 /\ Prio("tick") = 4
        /\ \A h \in Tasks :
               /\ (~Active(h) /\ Active(h)') =>
                      \A g \in Tasks : Active(g) => Prio(g) < Prio(h)
               /\ (Active(h) /\ Steps(h)) => pc'[h] # "branch"
               /\ Steps(h) =>
                      \A g \in Tasks \ {h} : Active(g) => Prio(g) < Prio(h)
        /\ Active("tick") =>
               /\ \A h \in Tasks \ {"tick"} : ~Steps(h)
               /\ counter' # counter => Steps("tick")
        /\ pc["tick"] = "branch" => counter = tick_c
        /\ pc["tick"] = "add" => counter = CounterAfterBranch(tick_br, tick_c)
        /\ (pc["hard_sync"] = "idle" /\ Steps("hard_sync")) => ~Active("tick")
      ]_vars

\* C13 witness: all four handlers are active, each having preempted the one
\* below it, with hard_sync past its reset and tick past its load.
C13_Witness ==
    /\ pc["encoder_handler"] = "add"
    /\ pc["measure"] = "store"
    /\ pc["hard_sync"] = "clear"
    /\ pc["tick"] = "branch"

\* encoder_handler is inside gpioa.lock(..).
Locked == pc["encoder_handler"] \in {"read", "unlock"}

\* C14: encoder_handler reads the port only with the priority raised to
\* measure's (the lock's ceiling); while it holds the lock measure is neither
\* active nor able to start; a pending tick can start, and so can a pending
\* hard_sync unless tick is active; outside the lock (so at the Fine-Tune
\* Offset update and after it) no ceiling is raised and encoder_handler
\* runs at priority 1.
C14_PortReadUnderCeiling ==
    /\ Locked =>
        /\ basepri = Prio("measure")
        /\ ~Active("measure")
        /\ ~Dispatchable("measure")
        /\ (pend["tick"] /\ ~Active("tick")) => Dispatchable("tick")
        /\ (pend["hard_sync"] /\ ~Active("hard_sync") /\ ~Active("tick")) =>
               Dispatchable("hard_sync")
    /\ ~Locked => basepri = 0
    /\ (Running("encoder_handler") /\ ~Locked) =>
           CurPrio = Prio("encoder_handler")

\* C14 witness: inside the lock, with measure pending and held off while
\* hard_sync and tick have preempted.
C14_Witness ==
    /\ pc["encoder_handler"] = "read"
    /\ pend["measure"]
    /\ pc["hard_sync"] = "clear"
    /\ pc["tick"] = "branch"

\* The running measure is past its if-block.
PastPublish == pc["measure"] \in {"clear", "ret"}

\* C15: a measure invocation stores Target Period once if the sample index
\* is a multiple of 32 after its increment and not at all otherwise; the
\* value stored is floor(floor(us / 5) / 2) for the converter's period us,
\* 5 being circle_time, which is not zero.
C15_PeriodStoredEvery32nd ==
    /\ circle_time = 5
    /\ m_stores <= 1
    /\ PastPublish => m_stores = IF AVG_COUNTER % 32 = 0 THEN 1 ELSE 0
    /\ m_stores = 1 => period = (m_conv.us \div 5) \div 2

\* C15 witness: the 64th invocation has stored period 2 for a converter
\* period of 27 microseconds.
C15_Witness ==
    /\ pc["measure"] = "ret"
    /\ AVG_COUNTER = 2 * AVG_BUF_SIZE
    /\ m_stores = 1
    /\ m_conv.us = 27
    /\ period = 2

\* C16: in every step, Target Period changes only in a step of measure,
\* Fine-Tune Offset only in a step of encoder_handler, Phase Counter only
\* in a step of tick or hard_sync, the output only in a step of tick, and a
\* step belongs to one handler; the set of values Target Period has held
\* grows only by measure's store, and what tick loads from Target Period is
\* the current value and a member of that set (the initial 0 or a value
\* measure stored before).
C16_SingleWriters ==
    [][ /\ period' # period => Steps("measure")
        /\ fine_tune' # fine_tune => Steps("encoder_handler")
        /\ counter' # counter => (Steps("tick") \/ Steps("hard_sync"))
        /\ out' # out => Steps("tick")
        /\ \A h \in Tasks : Steps(h) => \A g \in Tasks \ {h} : ~Steps(g)
        /\ stored' # stored =>
               /\ pc["measure"] = "store" /\ Steps("measure")
               /\ stored' = stored \cup {period'}
        /\ tick_p' # tick_p =>
               /\ Steps("tick")
               /\ tick_p' \in {NoLoad, period}
               /\ tick_p' # NoLoad => tick_p' \in stored
      ]_vars

\* C16 witness: tick has preempted measure right after its store and has
\* loaded the Target Period just stored.
C16_Witness ==
    /\ pc["measure"] = "odr_r"
    /\ pc["tick"] = "add"
    /\ tick_p = period
    /\ period >= 1
    /\ stored = {0, period}

\* The running tick has executed its increment.
TickIncremented == pc["tick"] \in {"clear", "ret"}

\* C17: after the increment of every tick invocation the Phase Counter has
\* not wrapped (it is the counter after the branch plus one, within u32)
\* and is at most the Target Period that invocation loaded, or 1 if that is
\* larger or the invocation loaded none, whatever ticks, hard syncs and
\* Target Period publications came before.
C17_IncrementNeverOverflows ==
    TickIncremented =>
        /\ FitsU32(counter)
        /\ counter = (IF tick_br = "none" THEN tick_c ELSE 0) + 1
        /\ counter <= IF tick_p > 1 THEN tick_p ELSE 1

\* C17 witness: a tick that loaded a counter above a Target Period of at
\* least 1 (measure had published a smaller period) has left the counter at 1.
C17_Witness ==
    /\ pc["tick"] = "clear"
    /\ tick_p >= 1
    /\ tick_c > tick_p
    /\ counter = 1

\* C18 as stated: no rising edge on the hard-sync input is dropped: as long
\* as an edge has arrived and no reset of the Phase Counter has followed
\* it, the pending flag that will bring the reset about is set.
C18_NoEdgeDropped == syncOwed => pend["hard_sync"]

\* C19: when the events of higher priority do not arrive without end, every
\* handler invocation that has started, preempted or not, runs on to its
\* return.
C19_HandlersComplete ==
    \A h \in Tasks : Active(h) ~> ~Active(h)

\* C19 witness: encoder_handler and measure are both preempted in
\* mid-body, tick runs, and no further TIM3 or hard-sync event will arrive.
C19_Witness ==
    /\ pc["encoder_handler"] = "add"
    /\ pc["measure"] = "odr_w"
    /\ pc["tick"] = "branch"
    /\ evLeft = 0

\* C20: every tick invocation leaves the Phase Counter at 1 or more; a tick
\* loads Phase Counter 0, and takes the force-low branch, only if it is the
\* first tick after start-up or the first after a hard_sync reset, and
\* between ticks the counter is 0 only at start-up or after such a reset
\* (never after tick's own reset).
C20_ZeroOnlyAfterStartOrSync ==
    /\ TickIncremented => counter >= 1
    /\ (Active("tick") /\ tick_c = 0) => (tick_sync \/ startFresh)
    /\ tick_br = "low" => (tick_c = 0 /\ (tick_sync \/ startFresh))
    /\ (~Active("tick") /\ counter = 0) => (syncFresh \/ startFresh)

\* C20 witness: a tick after start-up that loaded a counter of at least 1,
\* toggled the output, reset the counter and has left it at 1.
C20_Witness ==
    /\ pc["tick"] = "clear"
    /\ ~startFresh
    /\ tick_br = "toggle"
    /\ tick_c >= 1
    /\ counter = 1

====










